---- MODULE Spec2Model ----
(***************************************************************************)
(* eth-loadtester: WalletManager (sequence allocator, fund distribution,   *)
(* fund collection), LoadTester (concurrent dispatch loops, statistics)    *)
(* and main (orchestration).  Every await of the JavaScript source is a    *)
(* suspension point; the code between two awaits is one atomic action.     *)
(***************************************************************************)
EXTENDS Integers, Sequences, FiniteSets, TLC

\* ------------------------------------------------------------------ bounds
MaxWallets == 3   \* config.numWallets is at most this
MaxTx == 3        \* config.transactionsPerWallet is at most this
MaxSends == 6     \* numWallets * transactionsPerWallet is at most this
MaxStarts == 2    \* startLoadTest() calls a client makes
MaxFaults == 3    \* ledger calls that fail (reject, throw, failed receipt) in one behaviour
MaxDistWallets == 4  \* worker accounts of a distribution run
batchSize == 2    \* transfers per distribution batch (20 in the source), scaled to the runs
MaxCollectWallets == 2  \* worker accounts of a collection run
MaxMainWallets == 2     \* config.numWallets of a run of main
MaxRestartSends == 2    \* numWallets * transactionsPerWallet when startLoadTest() is called again
MaxCreate == 4          \* the largest createWallets(n) a client asks for
MaxAddresses == 5       \* addresses the key generator can yield

\* ------------------------------------------------------- program constants
CollectGasUnits == 1000000   \* BigInt(1000000), the gas units collection budgets
FallbackGasPrice == 20       \* BigInt(20000000000) wei, in gwei
VerifyCount == 3             \* Math.min(3, wallets.length) balances are verified
DefaultNumWallets == 10      \* parseInt(process.env.NUM_WALLETS) || 10
DefaultTransactionsPerWallet == 100  \* parseInt(process.env.TRANSACTIONS_PER_WALLET) || 100
DefaultIntervalMs == 1000    \* parseInt(process.env.TRANSACTION_INTERVAL_MS) || 1000

Runs == 1..MaxStarts
ErrorKinds == {"nonce", "other"}   \* does error.message include 'nonce'/'replacement'

\* ------------------------------------------------------------------- state
VARIABLES
  config,       \* the configuration: numWallets, transactionsPerWallet
  faults,       \* ledger calls that have failed so far
  nonces,       \* WalletManager.nonces: address -> next sequence number
  ledgerCount,  \* the ledger's pending-inclusive transaction count per worker
  isRunning,    \* LoadTester.isRunning
  stats,        \* LoadTester.stats
  clock,        \* Date.now(), advanced by every reading
  nStarts,      \* startLoadTest() calls made so far
  startpc,      \* per call of startLoadTest(): where it is
  initp,        \* per call and wallet: the updateNonce promise of initializeNonces
  loops,        \* per call and wallet: the runWalletTransactions task
  attempts,     \* sendTransaction() calls made since the last Stats reset
  alloc,        \* per wallet: what getNextNonce returned since the last store
  flying,       \* per call and wallet: sends issued whose terminal result is not yet known
  stopped,      \* stop() was called and no startLoadTest() has set the flag since
  stopEarly,    \* stop() was called before the first startLoadTest()
  masterBalance,   \* the ledger's balance of the funding account
  masterCount,     \* the ledger's pending-inclusive transaction count of the funding account
  distpc,          \* distributeFunds(): where it is
  distErr,         \* distributeFunds(): the error it threw
  amountPerWallet, \* distributeFunds(): amountPerWallet
  currentNonce,    \* distributeFunds(): currentNonce
  batchStart,      \* distributeFunds(): batchStart
  transfers,       \* distributeFunds(): the transfer task of each worker account
  collpc,          \* collectAllFunds(): where it is
  coll,            \* collectAllFunds(): the collection task of each worker account
  collStats,       \* collectAllFunds(): successfulCollections, totalCollected
  mainpc,          \* main(): where it is
  walletManager,   \* main(): walletManager is assigned
  childWallets,    \* WalletManager.childWallets: the addresses of the worker accounts
  createCall,      \* createWallets(): its argument and how it ended
  error,           \* main(): error is assigned
  handlers,        \* the SIGINT/SIGTERM handlers are registered
  verified,        \* main(): i of the balance verification loop
  proc,            \* the process: "running", "exited" or "killed"
  exitCode         \* the exit status of the process, -1 while it runs

Wallets == 1..config.numWallets

\* the configurations validateConfig accepts, within the bounds
Configs ==
  {c \in [numWallets : 1..MaxWallets, transactionsPerWallet : 1..MaxTx] :
     c.numWallets * c.transactionsPerWallet <= MaxSends}

testerVars == <<nonces, ledgerCount, isRunning, stats, clock, nStarts, startpc,
                initp, loops, attempts, alloc, flying, stopped, stopEarly>>
distVars == <<masterBalance, masterCount, distpc, distErr, amountPerWallet,
              currentNonce, batchStart, transfers>>
collVars == <<collpc, coll, collStats>>
mainVars == <<mainpc, walletManager, childWallets, createCall, error, handlers, verified, proc, exitCode>>
vars == <<config, faults, testerVars, distVars, collVars, mainVars>>
notTester == <<distVars, collVars, mainVars>>
notDist == <<testerVars, collVars, mainVars>>
notColl == <<testerVars, distVars, mainVars>>

NoLoop == [pc |-> "none", i |-> 0, nonce |-> 0]

\* LoadTester constructor
NewStats == [totalTransactions |-> 0, successfulTransactions |-> 0,
             failedTransactions |-> 0, startTime |-> 0, endTime |-> 0]

\* the allocation log of an address whose counter was just stored as p
Stored(p) == [base |-> p, n |-> 0, last |-> -1]

\* a funding balance: c hundredths of an ether (10^16 wei) plus w wei, |w| < 10^16
Amt(c, w) == [c |-> c, w |-> w]

\* WalletManager constructor and createWallets, nothing distributed yet
InitDistIdle ==
  /\ distpc = "idle"
  /\ distErr = "none"
  /\ amountPerWallet = [num |-> Amt(0, 0), den |-> 1]
  /\ currentNonce = 0
  /\ batchStart = 0
  /\ transfers = [g \in Wallets |-> [pc |-> "none", nonce |-> 0]]

\* createWallets not called yet
NoCall == [n |-> 0, outcome |-> "none"]

\* createWallets(numWallets) on the pool, the key generator yielding keys: the
\* pool afterwards
createWallets(pool, n, keys) == pool \o SubSeq(keys, 1, n)

\* a collection task before collectAllFunds is called: its locals, whether it
\* issued sendTransaction, how it ended, what it returned, and the
\* error.message its catch block logged (the call that raised the error)
NoTask == [pc |-> "none", balance |-> 0, cost |-> 0, amountToSend |-> 0,
           sent |-> FALSE, how |-> "none", success |-> FALSE, amount |-> 0,
           message |-> "none"]

\* collectAllFunds not called yet
InitCollIdle ==
  /\ collpc = "idle"
  /\ coll = [g \in Wallets |-> NoTask]
  /\ collStats = [successfulCollections |-> 0, totalCollected |-> 0]

\* the components are used by a client, main is not run
InitNoMain ==
  /\ mainpc = "none"
  /\ walletManager = TRUE
  /\ childWallets = [i \in 1..config.numWallets |-> i]
  /\ createCall = [n |-> config.numWallets, outcome |-> "returned"]
  /\ error = FALSE
  /\ handlers = FALSE
  /\ verified = 0
  /\ proc = "running"
  /\ exitCode = -1

\* LoadTester constructor
InitLoadTester ==
  /\ faults = 0
  /\ nonces = [w \in Wallets |-> 0]
  /\ ledgerCount = [w \in Wallets |-> 0]
  /\ isRunning = FALSE
  /\ stats = NewStats
  /\ clock = 1
  /\ nStarts = 0
  /\ startpc = [r \in Runs |-> "none"]
  /\ initp = [r \in Runs |-> [w \in Wallets |-> "none"]]
  /\ loops = [r \in Runs |-> [w \in Wallets |-> NoLoop]]
  /\ attempts = 0
  /\ alloc = [w \in Wallets |-> Stored(0)]
  /\ flying = [r \in Runs |-> [w \in Wallets |-> 0]]
  /\ stopped = FALSE
  /\ stopEarly = FALSE

\* a LoadTester over the worker accounts of a WalletManager
InitTester ==
  /\ config \in Configs
  /\ InitLoadTester
  /\ masterBalance = Amt(config.numWallets + 1, 0)
  /\ masterCount = 0
  /\ InitDistIdle
  /\ InitCollIdle
  /\ InitNoMain

\* --------------------------------------------------------- WalletManager
\* getNextNonce that returns the counter and forgets to advance it
getNextNonce_NoIncrement(n, w) ==
  [ret |-> n[w], map |-> n]

\* getNextNonce(walletAddress): the value returned and the map afterwards
getNextNonce(n, w) ==
  [ret |-> n[w], map |-> [n EXCEPT ![w] = n[w] + 1]]

\* an updateNonce that stores 0, as createWallets does
updateNonce_Zero(n, w) == [n EXCEPT ![w] = 0]

\* updateNonce(walletAddress), at the resolution of getTransactionCount
updateNonce(n, w) == [n EXCEPT ![w] = ledgerCount[w]]

\* the allocation log after getNextNonce returned v
Logged(a, v) ==
  [base |-> a.base, n |-> a.n + 1, last |-> v]

\* ------------------------------------------------------------ LoadTester
AllDone(L, r) == \A v \in Wallets : L[r][v].pc = "done"

\* what the code that already ran in this step left behind
Now == [stats |-> stats, nonces |-> nonces, alloc |-> alloc, flying |-> flying]

\* startLoadTest, finally block: reached when the last account loop returns
Finalize(r, c) ==
  /\ isRunning' = FALSE
  /\ stats' = [c.stats EXCEPT !.endTime = clock]
  /\ clock' = clock + 1
  /\ startpc' = [startpc EXCEPT ![r] = "returned"]

\* runWalletTransactions returns (loop exhausted, or break on !isRunning)
LoopExit(r, w, i, c) ==
  LET L == [loops EXCEPT ![r][w] = [pc |-> "done", i |-> i, nonce |-> 0]] IN
  /\ loops' = L
  /\ nonces' = c.nonces
  /\ alloc' = c.alloc
  /\ flying' = c.flying
  /\ UNCHANGED attempts
  /\ IF AllDone(L, r) /\ startpc[r] = "loops"
       THEN Finalize(r, c)
       ELSE stats' = c.stats /\ UNCHANGED <<isRunning, clock, startpc>>

\* a send the loop does not await: the broadcast is issued and the loop goes on
SendIssue_NotAwaited(r, w, i, c) ==
  LET g == getNextNonce(c.nonces, w) IN
  /\ nonces' = g.map
  /\ loops' = [loops EXCEPT ![r][w] =
                 [pc |-> IF i < config.transactionsPerWallet - 1 THEN "sleep" ELSE "stagger",
                  i |-> i, nonce |-> 0]]
  /\ alloc' = [c.alloc EXCEPT ![w] = Logged(c.alloc[w], g.ret)]
  /\ attempts' = attempts + 1
  /\ flying' = [c.flying EXCEPT ![r][w] = @ + 1]
  /\ stats' = c.stats
  /\ UNCHANGED <<isRunning, clock, startpc>>

\* sendTransaction, up to its first await: allocate the nonce, issue the broadcast
SendIssue(r, w, i, c) ==
  LET g == getNextNonce(c.nonces, w) IN
  /\ nonces' = g.map
  /\ loops' = [loops EXCEPT ![r][w] = [pc |-> "broadcast", i |-> i, nonce |-> g.ret]]
  /\ alloc' = [c.alloc EXCEPT ![w] = Logged(c.alloc[w], g.ret)]
  /\ attempts' = attempts + 1
  /\ flying' = [c.flying EXCEPT ![r][w] = @ + 1]
  /\ stats' = c.stats
  /\ UNCHANGED <<isRunning, clock, startpc>>

\* a loop head that does not look at the running flag
LoopHead_NoFlagCheck(r, w, i, c) ==
  IF i < config.transactionsPerWallet
    THEN SendIssue(r, w, i, c)
    ELSE LoopExit(r, w, i, c)

\* the head of the for loop of runWalletTransactions, at iteration i
LoopHead(r, w, i, c) ==
  IF i < config.transactionsPerWallet /\ isRunning
    THEN SendIssue(r, w, i, c)
    ELSE LoopExit(r, w, i, c)

Failed(s) == [s EXCEPT !.failedTransactions = @ + 1]
Succeeded(s) == [s EXCEPT !.successfulTransactions = @ + 1]
Counted(s) == [s EXCEPT !.totalTransactions = @ + 1]

\* the send of this loop has reached its terminal result
Landed(r, w, c) == [c EXCEPT !.flying[r][w] = @ - 1]

\* a catch block of runWalletTransactions that leaves the loop
LoopCatch_Leave(r, w, c) ==
  LoopExit(r, w, loops[r][w].i + 1, [c EXCEPT !.stats = Failed(c.stats)])

\* the catch block of runWalletTransactions, then the next iteration
LoopCatch(r, w, c) ==
  LoopHead(r, w, loops[r][w].i + 1, [c EXCEPT !.stats = Failed(c.stats)])

\* sendTransaction's catch block: count the failure, then resync or rethrow
SendCatch(r, w, kind, c) ==
  LET c1 == [c EXCEPT !.stats = Failed(c.stats)] IN
  IF kind = "nonce"
    THEN /\ loops' = [loops EXCEPT ![r][w].pc = "resync"]
         /\ stats' = c1.stats
         /\ flying' = c1.flying
         /\ UNCHANGED <<nonces, alloc, attempts, isRunning, clock, startpc>>
    ELSE LoopCatch(r, w, c1)

\* after a send returned normally: sleep if more iterations remain
AfterSend(r, w, c) ==
  IF loops[r][w].i < config.transactionsPerWallet - 1
    THEN /\ loops' = [loops EXCEPT ![r][w].pc = "sleep"]
         /\ stats' = c.stats
         /\ flying' = c.flying
         /\ UNCHANGED <<nonces, alloc, attempts, isRunning, clock, startpc>>
    ELSE LoopHead(r, w, loops[r][w].i + 1, c)

\* a ledger call fails
Fault == faults < MaxFaults /\ faults' = faults + 1

\* a startLoadTest() that returns at once when stop() was called before it
startLoadTest_StopLatch(r) ==
  /\ startpc[r] = "none"
  /\ IF isRunning
       THEN /\ startpc' = [startpc EXCEPT ![r] = "rejected"]
            /\ UNCHANGED <<isRunning, stats, clock, initp, attempts, stopped>>
       ELSE IF stopped
         THEN /\ startpc' = [startpc EXCEPT ![r] = "returned"]
              /\ UNCHANGED <<isRunning, stats, clock, initp, attempts, stopped>>
         ELSE /\ isRunning' = TRUE
              /\ stats' = [stats EXCEPT !.startTime = clock, !.totalTransactions = 0,
                                        !.successfulTransactions = 0,
                                        !.failedTransactions = 0]
              /\ clock' = clock + 1
              /\ initp' = [initp EXCEPT ![r] = [w \in Wallets |-> "pending"]]
              /\ startpc' = [startpc EXCEPT ![r] = "init"]
              /\ attempts' = 0
              /\ stopped' = FALSE
  /\ UNCHANGED <<config, faults, nonces, ledgerCount, loops, alloc, flying, stopEarly>>

\* a startLoadTest() that resets the statistics before it looks at the flag
startLoadTest_ResetFirst(r) ==
  /\ startpc[r] = "none"
  /\ stats' = [stats EXCEPT !.startTime = clock, !.totalTransactions = 0,
                            !.successfulTransactions = 0,
                            !.failedTransactions = 0]
  /\ clock' = clock + 1
  /\ attempts' = 0
  /\ IF isRunning
       THEN /\ startpc' = [startpc EXCEPT ![r] = "rejected"]
            /\ UNCHANGED <<isRunning, initp, stopped>>
       ELSE /\ isRunning' = TRUE
            /\ initp' = [initp EXCEPT ![r] = [w \in Wallets |-> "pending"]]
            /\ startpc' = [startpc EXCEPT ![r] = "init"]
            /\ stopped' = FALSE
  /\ UNCHANGED <<config, faults, nonces, ledgerCount, loops, alloc, flying, stopEarly>>

\* startLoadTest(), up to its first await
startLoadTest(r) ==
  /\ startpc[r] = "none"
  /\ IF isRunning
       THEN /\ startpc' = [startpc EXCEPT ![r] = "rejected"]
            /\ UNCHANGED <<isRunning, stats, clock, initp, attempts, stopped>>
       ELSE /\ isRunning' = TRUE
            /\ stats' = [stats EXCEPT !.startTime = clock, !.totalTransactions = 0,
                                      !.successfulTransactions = 0,
                                      !.failedTransactions = 0]
            /\ clock' = clock + 1
            /\ initp' = [initp EXCEPT ![r] = [w \in Wallets |-> "pending"]]
            /\ startpc' = [startpc EXCEPT ![r] = "init"]
            /\ attempts' = 0
            /\ stopped' = FALSE
  /\ UNCHANGED <<config, faults, nonces, ledgerCount, loops, alloc, flying, stopEarly>>

\* stop()
stop ==
  /\ isRunning' = FALSE
  /\ stopped' = TRUE
  /\ UNCHANGED <<config, faults, nonces, ledgerCount, stats, clock, startpc, initp,
                 loops, attempts, alloc, flying>>

\* a client calls startLoadTest() on the new LoadTester
Start ==
  /\ nStarts = 0
  /\ ~stopEarly
  /\ nStarts' = nStarts + 1
  /\ startLoadTest(nStarts + 1)
  /\ UNCHANGED notTester

\* a client calls stop() after startLoadTest()
Stop ==
  /\ nStarts > 0
  /\ stop
  /\ UNCHANGED <<nStarts, stopEarly>>
  /\ UNCHANGED notTester

\* a client calls stop() on the new LoadTester, before any startLoadTest()
StopFirst ==
  /\ nStarts = 0
  /\ stop
  /\ stopEarly' = TRUE
  /\ UNCHANGED nStarts
  /\ UNCHANGED notTester

\* a client calls startLoadTest() after it called stop()
StartAfterStop ==
  /\ nStarts = 0
  /\ stopEarly
  /\ nStarts' = nStarts + 1
  /\ startLoadTest(nStarts + 1)
  /\ UNCHANGED notTester

\* initializeNonces: one updateNonce resolves; after the last one the loops start
InitNonceResolve(r, w) ==
  /\ initp[r][w] = "pending"
  /\ LET P == [initp EXCEPT ![r][w] = "done"] IN
     /\ initp' = P
     /\ nonces' = updateNonce(nonces, w)
     /\ alloc' = [alloc EXCEPT ![w] = Stored(ledgerCount[w])]
     /\ IF startpc[r] = "init" /\ \A v \in Wallets : P[r][v] = "done"
          THEN /\ startpc' = [startpc EXCEPT ![r] = "loops"]
               /\ loops' = [loops EXCEPT ![r] =
                              [v \in Wallets |-> [pc |-> "stagger", i |-> 0, nonce |-> 0]]]
          ELSE UNCHANGED <<startpc, loops>>
  /\ UNCHANGED notTester
  /\ UNCHANGED <<config, faults, ledgerCount, isRunning, stats, clock, nStarts, attempts, flying,
                 stopped, stopEarly>>

\* initializeNonces: one getTransactionCount fails; Promise.all rejects and
\* startLoadTest throws from outside its try block
InitNonceReject(r, w) ==
  /\ initp[r][w] = "pending"
  /\ initp' = [initp EXCEPT ![r][w] = "failed"]
  /\ startpc' = IF startpc[r] = "init" THEN [startpc EXCEPT ![r] = "threw"] ELSE startpc
  /\ Fault
  /\ UNCHANGED notTester
  /\ UNCHANGED <<config, nonces, ledgerCount, isRunning, stats, clock, nStarts, loops,
                 attempts, alloc, flying, stopped, stopEarly>>

\* a sleep (stagger delay or interval) of an account loop ends
TimerFire(r, w) ==
  /\ loops[r][w].pc \in {"stagger", "sleep"}
  /\ LoopHead(r, w, IF loops[r][w].pc = "sleep" THEN loops[r][w].i + 1 ELSE 0, Now)
  /\ UNCHANGED notTester
  /\ UNCHANGED <<config, faults, ledgerCount, nStarts, initp, stopped, stopEarly>>

\* wallet.sendTransaction resolves: the ledger took the transaction
BroadcastAccept(r, w) ==
  /\ loops[r][w].pc = "broadcast"
  /\ loops[r][w].nonce = ledgerCount[w]
  /\ ledgerCount' = [ledgerCount EXCEPT ![w] = @ + 1]
  /\ stats' = Counted(stats)
  /\ loops' = [loops EXCEPT ![r][w].pc = "wait"]
  /\ UNCHANGED notTester
  /\ UNCHANGED <<config, faults, nonces, isRunning, clock, nStarts, startpc, initp, attempts, alloc,
                 flying, stopped, stopEarly>>

\* wallet.sendTransaction rejects
BroadcastReject(r, w, kind) ==
  /\ loops[r][w].pc = "broadcast"
  /\ SendCatch(r, w, kind, Landed(r, w, Now))
  /\ Fault
  /\ UNCHANGED notTester
  /\ UNCHANGED <<config, ledgerCount, nStarts, initp, stopped, stopEarly>>

\* tx.wait() resolves with a receipt
WaitResolve(r, w, status) ==
  /\ loops[r][w].pc = "wait"
  /\ LET c == Landed(r, w, Now) IN
     AfterSend(r, w, [c EXCEPT !.stats = IF status = 1 THEN Succeeded(c.stats)
                                                         ELSE Failed(c.stats)])
  /\ (IF status = 1 THEN UNCHANGED faults ELSE Fault)
  /\ UNCHANGED notTester
  /\ UNCHANGED <<config, ledgerCount, nStarts, initp, stopped, stopEarly>>

\* tx.wait() rejects
WaitReject(r, w, kind) ==
  /\ loops[r][w].pc = "wait"
  /\ SendCatch(r, w, kind, Landed(r, w, Now))
  /\ Fault
  /\ UNCHANGED notTester
  /\ UNCHANGED <<config, ledgerCount, nStarts, initp, stopped, stopEarly>>

\* the updateNonce of sendTransaction's catch block resolves; the error is rethrown
ResyncResolve(r, w) ==
  /\ loops[r][w].pc = "resync"
  /\ LoopCatch(r, w, [Now EXCEPT !.nonces = updateNonce(nonces, w),
                                 !.alloc[w] = Stored(ledgerCount[w])])
  /\ UNCHANGED notTester
  /\ UNCHANGED <<config, faults, ledgerCount, nStarts, initp, stopped, stopEarly>>

\* the updateNonce of sendTransaction's catch block rejects
ResyncReject(r, w) ==
  /\ loops[r][w].pc = "resync"
  /\ LoopCatch(r, w, Now)
  /\ Fault
  /\ UNCHANGED notTester
  /\ UNCHANGED <<config, ledgerCount, nStarts, initp, stopped, stopEarly>>

\* the ledger's answers and the timers
Ledger ==
  \/ \E r \in Runs, w \in Wallets : InitNonceResolve(r, w)
  \/ \E r \in Runs, w \in Wallets : InitNonceReject(r, w)
  \/ \E r \in Runs, w \in Wallets : TimerFire(r, w)
  \/ \E r \in Runs, w \in Wallets : BroadcastAccept(r, w)
  \/ \E r \in Runs, w \in Wallets, kind \in ErrorKinds : BroadcastReject(r, w, kind)
  \/ \E r \in Runs, w \in Wallets, status \in {0, 1} : WaitResolve(r, w, status)
  \/ \E r \in Runs, w \in Wallets, kind \in ErrorKinds : WaitReject(r, w, kind)
  \/ \E r \in Runs, w \in Wallets : ResyncResolve(r, w)
  \/ \E r \in Runs, w \in Wallets : ResyncReject(r, w)

\* a LoadTester whose client calls startLoadTest() once and stop() at any time after
Next == Start \/ Stop \/ Ledger

Spec == InitTester /\ [][Next]_vars

\* a LoadTester whose client calls stop() before startLoadTest()
NextStopFirst == StopFirst \/ StartAfterStop \/ Stop \/ Ledger

SpecStopFirst == InitTester /\ [][NextStopFirst]_vars

\* a client calls startLoadTest(), for the first time or again
StartCall ==
  /\ nStarts < MaxStarts
  /\ nStarts' = nStarts + 1
  /\ startLoadTest(nStarts + 1)
  /\ UNCHANGED notTester

\* a LoadTester over few enough sends for its client to call startLoadTest() again
InitRestart ==
  /\ InitTester
  /\ config.numWallets * config.transactionsPerWallet <= MaxRestartSends

\* a LoadTester whose client calls startLoadTest() and stop() at any time
NextRestart == StartCall \/ Stop \/ Ledger

SpecRestart == InitRestart /\ [][NextRestart]_vars

\* wallet.sendTransaction rejects because the ledger's pending count is not
\* the sequence number of the transaction
BroadcastRefuse(r, w, kind) ==
  /\ loops[r][w].pc = "broadcast"
  /\ loops[r][w].nonce # ledgerCount[w]
  /\ SendCatch(r, w, kind, Landed(r, w, Now))
  /\ UNCHANGED notTester
  /\ UNCHANGED <<config, faults, ledgerCount, nStarts, initp, stopped, stopEarly>>

\* the promise that the task of account w in run r is waiting for settles
Settle(r, w) ==
  /\ w \in Wallets
  /\ \/ InitNonceResolve(r, w)
     \/ InitNonceReject(r, w)
     \/ TimerFire(r, w)
     \/ BroadcastAccept(r, w)
     \/ \E kind \in ErrorKinds : BroadcastReject(r, w, kind)
     \/ \E kind \in ErrorKinds : BroadcastRefuse(r, w, kind)
     \/ \E status \in {0, 1} : WaitResolve(r, w, status)
     \/ \E kind \in ErrorKinds : WaitReject(r, w, kind)
     \/ ResyncResolve(r, w)
     \/ ResyncReject(r, w)

\* the ledger refuses a broadcast
Refuse == \E r \in Runs, w \in Wallets, kind \in ErrorKinds : BroadcastRefuse(r, w, kind)

\* a LoadTester whose ledger calls and timers all settle in the end
NextSettling == Start \/ Stop \/ Ledger \/ Refuse

SpecSettling ==
  /\ InitTester
  /\ [][NextSettling]_vars
  /\ \A r \in Runs, w \in 1..MaxWallets : WF_vars(Settle(r, w))

\* ---------------------------------------------- WalletManager.distributeFunds
AmtSub(a, b) == Amt(a.c - b.c, a.w - b.w)
AmtIsZero(a) == a.c = 0 /\ a.w = 0
AmtLeqZero(a) == a.c < 0 \/ (a.c = 0 /\ a.w <= 0)

\* parseEther((0.01 * n).toString()) - n * 10^16, in wei, for 0 <= n <= 100:
\* the IEEE-754 double product 0.01 * n, printed by Number::toString (e.g.
\* 0.01 * 35 prints as 0.35000000000000003), read back as an 18-decimal amount
DoubleExcessWei(n) ==
  IF n \in {35, 41, 47} THEN 30
  ELSE IF n \in {57, 69, 70, 82, 83, 94, 95} THEN 100
  ELSE 0

\* gasReserve = ethers.parseEther((0.01 * this.childWallets.length).toString())
gasReserve(n) == Amt(n, DoubleExcessWei(n))

\* availableBalance = masterBalance - gasReserve
availableBalance(b, n) == AmtSub(b, gasReserve(n))

\* the balance checks of distributeFunds: the error thrown, or "none"
BalanceCheck(b, n) ==
  IF AmtIsZero(b) THEN "NoFunds"
  ELSE IF AmtLeqZero(availableBalance(b, n)) THEN "Insufficient"
  ELSE "none"

\* a batch with no end: every account from index start on
Batch_NoEnd(start) ==
  {g \in Wallets : start < g}

\* the worker accounts of the batch that starts at index start (0-based)
Batch(start) ==
  {g \in Wallets : start < g /\ g <= start + batchSize}

\* a batch whose transfers are numbered by their global index
IssueBatch_GlobalIndex(T, start, base) ==
  [g \in Wallets |->
     IF g \in Batch(start) THEN [pc |-> "broadcast", nonce |-> base + (g - 1)]
     ELSE T[g]]

\* batch.map(...): every transfer of the batch is issued, with txNonce =
\* currentNonce + batchIndex
IssueBatch(T, start, base) ==
  [g \in Wallets |->
     IF g \in Batch(start) THEN [pc |-> "broadcast", nonce |-> base + (g - 1 - start)]
     ELSE T[g]]

\* distributeFunds(), up to its first await (getBalance)
distributeFunds ==
  /\ distpc = "idle"
  /\ distpc' = "balance"
  /\ UNCHANGED <<masterBalance, masterCount, distErr, amountPerWallet, currentNonce,
                 batchStart, transfers>>

\* a client calls distributeFunds()
DistCall ==
  /\ distributeFunds
  /\ UNCHANGED <<config, faults, notDist>>

\* getBalance resolves: the balance checks, then getTransactionCount is issued
DistBalanceResolve ==
  /\ distpc = "balance"
  /\ LET err == BalanceCheck(masterBalance, config.numWallets) IN
     IF err # "none"
       THEN /\ distpc' = "threw"
            /\ distErr' = err
            /\ UNCHANGED amountPerWallet
       ELSE /\ distpc' = "nonce"
            /\ amountPerWallet' =
                 [num |-> availableBalance(masterBalance, config.numWallets),
                  den |-> config.numWallets]
            /\ UNCHANGED distErr
  /\ UNCHANGED <<masterBalance, masterCount, currentNonce, batchStart, transfers>>
  /\ UNCHANGED <<config, faults, notDist>>

\* getBalance rejects
DistBalanceReject ==
  /\ distpc = "balance"
  /\ Fault
  /\ distpc' = "threw"
  /\ distErr' = "Rpc"
  /\ UNCHANGED <<masterBalance, masterCount, amountPerWallet, currentNonce, batchStart,
                 transfers>>
  /\ UNCHANGED <<config, notDist>>

\* getTransactionCount resolves: the first batch is issued
DistNonceResolve ==
  /\ distpc = "nonce"
  /\ currentNonce' = masterCount
  /\ batchStart' = 0
  /\ transfers' = IssueBatch(transfers, 0, masterCount)
  /\ distpc' = "batch"
  /\ UNCHANGED <<masterBalance, masterCount, distErr, amountPerWallet>>
  /\ UNCHANGED <<config, faults, notDist>>

\* getTransactionCount rejects
DistNonceReject ==
  /\ distpc = "nonce"
  /\ Fault
  /\ distpc' = "threw"
  /\ distErr' = "Rpc"
  /\ UNCHANGED <<masterBalance, masterCount, amountPerWallet, currentNonce, batchStart,
                 transfers>>
  /\ UNCHANGED <<config, notDist>>

\* masterWallet.sendTransaction resolves: the ledger took the transfer
TransferAccept(g) ==
  /\ transfers[g].pc = "broadcast"
  /\ transfers' = [transfers EXCEPT ![g].pc = "wait"]
  /\ masterCount' = masterCount + 1
  /\ UNCHANGED <<masterBalance, distpc, distErr, amountPerWallet, currentNonce, batchStart>>
  /\ UNCHANGED <<config, faults, notDist>>

\* a transfer task that swallows its error and returns
TransferCatch_Swallow(g) ==
  LET T == [transfers EXCEPT ![g].pc = "threw"] IN
  IF distpc = "batch" /\ \A h \in Batch(batchStart) : T[h].pc \in {"confirmed", "threw"}
    THEN /\ currentNonce' = currentNonce + Cardinality(Batch(batchStart))
         /\ batchStart' = batchStart + batchSize
         /\ UNCHANGED distErr
         /\ IF batchStart + batchSize < config.numWallets
              THEN /\ transfers' = IssueBatch(T, batchStart + batchSize,
                                              currentNonce + Cardinality(Batch(batchStart)))
                   /\ UNCHANGED distpc
              ELSE /\ transfers' = T
                   /\ distpc' = "returned"
    ELSE /\ transfers' = T
         /\ UNCHANGED <<distpc, distErr, currentNonce, batchStart>>

\* the catch block of a transfer task rethrows: Promise.all rejects, and
\* distributeFunds throws if it has not thrown yet
TransferCatch(g) ==
  /\ transfers' = [transfers EXCEPT ![g].pc = "threw"]
  /\ IF distpc = "batch"
       THEN distpc' = "threw" /\ distErr' = "Transfer"
       ELSE UNCHANGED <<distpc, distErr>>
  /\ UNCHANGED <<currentNonce, batchStart>>

\* masterWallet.sendTransaction rejects
TransferReject(g) ==
  /\ transfers[g].pc = "broadcast"
  /\ Fault
  /\ TransferCatch(g)
  /\ UNCHANGED <<masterBalance, masterCount, amountPerWallet>>
  /\ UNCHANGED <<config, notDist>>

\* tx.wait() rejects
TransferWaitReject(g) ==
  /\ transfers[g].pc = "wait"
  /\ Fault
  /\ TransferCatch(g)
  /\ UNCHANGED <<masterBalance, masterCount, amountPerWallet>>
  /\ UNCHANGED <<config, notDist>>

\* tx.wait() resolves; after the last one of the batch, currentNonce advances
\* and the next batch is issued, or distributeFunds returns
TransferConfirm(g) ==
  /\ transfers[g].pc = "wait"
  /\ LET T == [transfers EXCEPT ![g].pc = "confirmed"] IN
     IF distpc = "batch" /\ \A h \in Batch(batchStart) : T[h].pc = "confirmed"
       THEN /\ currentNonce' = currentNonce + Cardinality(Batch(batchStart))
            /\ batchStart' = batchStart + batchSize
            /\ IF batchStart + batchSize < config.numWallets
                 THEN /\ transfers' = IssueBatch(T, batchStart + batchSize,
                                                 currentNonce + Cardinality(Batch(batchStart)))
                      /\ UNCHANGED distpc
                 ELSE /\ transfers' = T
                      /\ distpc' = "returned"
       ELSE /\ transfers' = T
            /\ UNCHANGED <<distpc, currentNonce, batchStart>>
  /\ UNCHANGED <<masterBalance, masterCount, distErr, amountPerWallet>>
  /\ UNCHANGED <<config, faults, notDist>>

\* the funding balances tried: none, below, at and above the reserve of n accounts
Balances(n, weis) ==
  {Amt(0, 0)} \cup {Amt(c, w) : c \in {n - 1, n, n + 1}, w \in weis}

\* a WalletManager with 1..MaxDistWallets worker accounts, before distributeFunds
InitDistribute ==
  /\ config \in [numWallets : 1..MaxDistWallets, transactionsPerWallet : {1}]
  /\ InitLoadTester
  /\ masterBalance \in Balances(config.numWallets, {0, 1})
  /\ masterCount \in {0, 1}
  /\ InitDistIdle
  /\ InitCollIdle
  /\ InitNoMain

NextDistribute ==
  \/ DistCall
  \/ DistBalanceResolve
  \/ DistBalanceReject
  \/ DistNonceResolve
  \/ DistNonceReject
  \/ \E g \in Wallets : TransferAccept(g)
  \/ \E g \in Wallets : TransferReject(g)
  \/ \E g \in Wallets : TransferConfirm(g)
  \/ \E g \in Wallets : TransferWaitReject(g)

SpecDistribute == InitDistribute /\ [][NextDistribute]_vars

\* the worker counts tried by the balance checks alone
ReserveWallets == {1, 2, 10, 34, 35, 36, 57, 58}

\* a WalletManager with any of ReserveWallets worker accounts
InitReserve ==
  /\ config \in [numWallets : ReserveWallets, transactionsPerWallet : {1}]
  /\ InitLoadTester
  /\ masterBalance \in Balances(config.numWallets, {0, 1, 30, 31, 100, 101})
  /\ masterCount = 0
  /\ InitDistIdle
  /\ InitCollIdle
  /\ InitNoMain

\* distributeFunds up to the end of its balance checks
NextReserve == DistCall \/ DistBalanceResolve \/ DistBalanceReject

SpecReserve == InitReserve /\ [][NextReserve]_vars

\* --------------------------------------------- WalletManager.collectAllFunds
\* amounts of this section are in gwei; a gas price of 0 stands for a fee
\* reply whose gasPrice is null or 0n

\* estimatedGasCost = BigInt(1000000) * (gasPrice.gasPrice || BigInt(20000000000))
estimatedGasCost(price) ==
  CollectGasUnits * (IF price # 0 THEN price ELSE FallbackGasPrice)

\* balance <= estimatedGasCost
TooLow(balance, cost) == balance <= cost

\* an amountToSend that forgets the gas cost
amountToSend_Gross(balance, cost) == balance

\* amountToSend = balance - estimatedGasCost
amountToSend(balance, cost) == balance - cost

RECURSIVE SumAmounts(_, _)
\* totalCollected += result.amount, over the results of the first n accounts
SumAmounts(C, n) ==
  IF n = 0 THEN 0
  ELSE SumAmounts(C, n - 1) + (IF C[n].success THEN C[n].amount ELSE 0)

\* results.forEach(...)
Aggregate(C) ==
  [successfulCollections |-> Cardinality({g \in Wallets : C[g].success}),
   totalCollected |-> SumAmounts(C, config.numWallets)]

\* the task of g, its locals as in T, returns {success, amount}; when it is the last one,
\* Promise.all resolves, the results are aggregated and the final balance
\* query is issued
TaskReturn(T, g, how, success, amount) ==
  LET C == [T EXCEPT ![g].pc = "done", ![g].how = how,
                      ![g].success = success, ![g].amount = amount] IN
  /\ coll' = C
  /\ IF collpc = "running" /\ \A h \in Wallets : C[h].pc = "done"
       THEN collpc' = "final" /\ collStats' = Aggregate(C)
       ELSE UNCHANGED <<collpc, collStats>>

\* a catch block that rethrows: Promise.all rejects and collectAllFunds throws
CollCatch_Rethrow(g) ==
  /\ coll' = [coll EXCEPT ![g].pc = "done", ![g].how = "error",
                          ![g].message = coll[g].pc]
  /\ collpc' = IF collpc = "running" THEN "threw" ELSE collpc
  /\ UNCHANGED collStats

\* the catch block of a collection task
CollCatch(g) ==
  TaskReturn([coll EXCEPT ![g].message = coll[g].pc], g, "error", FALSE, 0)

\* collectAllFunds(), up to its first await: every task issues getBalance
collectAllFunds ==
  /\ collpc = "idle"
  /\ coll' = [g \in Wallets |-> [NoTask EXCEPT !.pc = "balance"]]
  /\ collpc' = IF Wallets = {} THEN "final" ELSE "running"
  /\ UNCHANGED collStats

\* a client calls collectAllFunds()
CollCall ==
  /\ collectAllFunds
  /\ UNCHANGED <<config, faults, notColl>>

\* getBalance(wallet.address) resolves with b
CollBalanceResolve(g, b) ==
  /\ coll[g].pc = "balance"
  /\ IF b = 0
       THEN TaskReturn(coll, g, "noop", TRUE, 0)
       ELSE /\ coll' = [coll EXCEPT ![g].pc = "fee", ![g].balance = b]
            /\ UNCHANGED <<collpc, collStats>>
  /\ UNCHANGED <<config, faults, notColl>>

\* getBalance(wallet.address) rejects
CollBalanceReject(g) ==
  /\ coll[g].pc = "balance"
  /\ Fault
  /\ CollCatch(g)
  /\ UNCHANGED <<config, notColl>>

\* getFeeData() resolves with gas price p
CollFeeResolve(g, p) ==
  /\ coll[g].pc = "fee"
  /\ LET cost == estimatedGasCost(p)
         C == [coll EXCEPT ![g].cost = cost] IN
     IF TooLow(coll[g].balance, cost)
       THEN TaskReturn(C, g, "noop", TRUE, 0)
       ELSE /\ coll' = [C EXCEPT ![g].pc = "nonce",
                          ![g].amountToSend = amountToSend(coll[g].balance, cost)]
            /\ UNCHANGED <<collpc, collStats>>
  /\ UNCHANGED <<config, faults, notColl>>

\* getFeeData() rejects
CollFeeReject(g) ==
  /\ coll[g].pc = "fee"
  /\ Fault
  /\ CollCatch(g)
  /\ UNCHANGED <<config, notColl>>

\* getTransactionCount resolves: wallet.sendTransaction is issued
CollNonceResolve(g) ==
  /\ coll[g].pc = "nonce"
  /\ coll' = [coll EXCEPT ![g].pc = "broadcast", ![g].sent = TRUE]
  /\ UNCHANGED <<collpc, collStats>>
  /\ UNCHANGED <<config, faults, notColl>>

\* getTransactionCount rejects
CollNonceReject(g) ==
  /\ coll[g].pc = "nonce"
  /\ Fault
  /\ CollCatch(g)
  /\ UNCHANGED <<config, notColl>>

\* wallet.sendTransaction resolves
CollSendAccept(g) ==
  /\ coll[g].pc = "broadcast"
  /\ coll' = [coll EXCEPT ![g].pc = "wait"]
  /\ UNCHANGED <<collpc, collStats>>
  /\ UNCHANGED <<config, faults, notColl>>

\* wallet.sendTransaction rejects
CollSendReject(g) ==
  /\ coll[g].pc = "broadcast"
  /\ Fault
  /\ CollCatch(g)
  /\ UNCHANGED <<config, notColl>>

\* tx.wait() resolves with a receipt of the given status
CollWaitResolve(g, status) ==
  /\ coll[g].pc = "wait"
  /\ IF status = 1
       THEN /\ TaskReturn(coll, g, "confirmed", TRUE, coll[g].amountToSend)
            /\ UNCHANGED faults
       ELSE /\ Fault
            /\ TaskReturn(coll, g, "failed", FALSE, 0)
  /\ UNCHANGED <<config, notColl>>

\* tx.wait() rejects
CollWaitReject(g) ==
  /\ coll[g].pc = "wait"
  /\ Fault
  /\ CollCatch(g)
  /\ UNCHANGED <<config, notColl>>

\* the final getBalance(masterWallet.address) resolves: collectAllFunds returns
CollFinalResolve ==
  /\ collpc = "final"
  /\ collpc' = "returned"
  /\ UNCHANGED <<coll, collStats>>
  /\ UNCHANGED <<config, faults, notColl>>

\* the final getBalance(masterWallet.address) rejects: collectAllFunds throws
CollFinalReject ==
  /\ collpc = "final"
  /\ Fault
  /\ collpc' = "threw"
  /\ UNCHANGED <<coll, collStats>>
  /\ UNCHANGED <<config, notColl>>

\* worker balances tried, in gwei: nothing, the cost at 1 gwei, just above it,
\* just above the cost at the fallback price
CollectBalances == {0, 1000000, 1000007, 20000007}

\* gas prices tried, in gwei
GasPrices == {0, 1}

\* a WalletManager with 1..MaxCollectWallets worker accounts
InitCollect ==
  /\ config \in [numWallets : 1..MaxCollectWallets, transactionsPerWallet : {1}]
  /\ InitLoadTester
  /\ masterBalance = Amt(0, 0)
  /\ masterCount = 0
  /\ InitDistIdle
  /\ InitCollIdle
  /\ InitNoMain

NextCollect ==
  \/ CollCall
  \/ \E g \in Wallets, b \in CollectBalances : CollBalanceResolve(g, b)
  \/ \E g \in Wallets : CollBalanceReject(g)
  \/ \E g \in Wallets, p \in GasPrices : CollFeeResolve(g, p)
  \/ \E g \in Wallets : CollFeeReject(g)
  \/ \E g \in Wallets : CollNonceResolve(g)
  \/ \E g \in Wallets : CollNonceReject(g)
  \/ \E g \in Wallets : CollSendAccept(g)
  \/ \E g \in Wallets : CollSendReject(g)
  \/ \E g \in Wallets, status \in {0, 1} : CollWaitResolve(g, status)
  \/ \E g \in Wallets : CollWaitReject(g)
  \/ CollFinalResolve
  \/ CollFinalReject

SpecCollect == InitCollect /\ [][NextCollect]_vars

\* ----------------------------------------------------------------- index.js
\* a numeric environment variable: not given (or not a number: parseInt is
\* NaN), or given as the integer n
NotGiven == [given |-> FALSE, val |-> 0]
Given(n) == [given |-> TRUE, val |-> n]

\* parseInt(process.env.X) || d
ParseIntOr(v, d) == IF v.given /\ v.val # 0 THEN v.val ELSE d

\* the default of RPC_URL
DefaultRpcUrl == "http://127.0.0.1:8545"

\* config.js: the config object made from the environment e when the module
\* is loaded; "" stands for a string variable that is not set
loadConfig(e) ==
  [privateKey |-> e.PRIVATE_KEY,
   rpcUrl |-> IF e.RPC_URL # "" THEN e.RPC_URL ELSE DefaultRpcUrl,
   numWallets |-> ParseIntOr(e.NUM_WALLETS, DefaultNumWallets),
   transactionsPerWallet |->
     ParseIntOr(e.TRANSACTIONS_PER_WALLET, DefaultTransactionsPerWallet),
   intervalMs |-> ParseIntOr(e.TRANSACTION_INTERVAL_MS, DefaultIntervalMs)]

\* validateConfig(): no error is pushed
validateConfig(c) ==
  /\ c.privateKey # ""
  /\ c.rpcUrl # ""
  /\ c.numWallets > 0
  /\ c.transactionsPerWallet > 0
  /\ c.intervalMs >= 0

\* an end of the process that forgets process.exit(1)
Exit_NoStatus(err) ==
  /\ mainpc' = "done"
  /\ proc' = "exited"
  /\ exitCode' = 0

\* the process ends: process.exit(1) after an error, else main returns and
\* nothing is left pending
Exit(err) ==
  /\ mainpc' = "done"
  /\ proc' = "exited"
  /\ exitCode' = IF err THEN 1 ELSE 0

\* a finally block that collects only after a run without error
Teardown_SkipOnError(err, wm) ==
  /\ error' = err
  /\ IF wm /\ Len(childWallets') > 0 /\ ~err
       THEN /\ collectAllFunds
            /\ mainpc' = "collect"
            /\ UNCHANGED <<proc, exitCode>>
       ELSE /\ Exit(err)
            /\ UNCHANGED collVars

\* the catch block (when err) and the finally block of main, up to the await
\* of collectAllFunds() or the end of the process
Teardown(err, wm) ==
  /\ error' = err
  /\ IF wm /\ Len(childWallets') > 0
       THEN /\ collectAllFunds
            /\ mainpc' = "collect"
            /\ UNCHANGED <<proc, exitCode>>
       ELSE /\ Exit(err)
            /\ UNCHANGED collVars

\* main(), up to its first await: validateConfig, then getNetwork is issued
MainStart ==
  /\ mainpc = "start"
  /\ IF validateConfig(config)
       THEN /\ mainpc' = "network"
            /\ UNCHANGED <<error, proc, exitCode, collVars, childWallets, createCall>>
       ELSE /\ UNCHANGED <<childWallets, createCall>>
            /\ Teardown(TRUE, walletManager)
  /\ UNCHANGED <<walletManager, handlers, verified>>
  /\ UNCHANGED <<config, faults, testerVars, distVars>>

\* getNetwork resolves: the WalletManager is made, getBalance is issued
MainNetworkResolve ==
  /\ mainpc = "network"
  /\ walletManager' = TRUE
  /\ mainpc' = "balance"
  /\ UNCHANGED <<childWallets, createCall, error, handlers, verified, proc, exitCode>>
  /\ UNCHANGED <<config, faults, testerVars, distVars, collVars>>

\* getNetwork rejects: a warning, then as when it resolves
MainNetworkReject ==
  /\ mainpc = "network"
  /\ Fault
  /\ walletManager' = TRUE
  /\ mainpc' = "balance"
  /\ UNCHANGED <<childWallets, createCall, error, handlers, verified, proc, exitCode>>
  /\ UNCHANGED <<config, testerVars, distVars, collVars>>

\* getBalance resolves: a zero balance throws; otherwise createWallets, then
\* distributeFunds() up to its first await
MainBalanceResolve ==
  /\ mainpc = "balance"
  /\ IF AmtIsZero(masterBalance)
       THEN /\ UNCHANGED <<childWallets, createCall>>
            /\ Teardown(TRUE, walletManager)
            /\ UNCHANGED distVars
       ELSE /\ childWallets' = createWallets(childWallets, config.numWallets,
                                            [i \in 1..config.numWallets |-> i])
            /\ createCall' = [n |-> config.numWallets, outcome |-> "returned"]
            /\ distributeFunds
            /\ mainpc' = "distribute"
            /\ UNCHANGED <<error, proc, exitCode, collVars>>
  /\ UNCHANGED <<walletManager, handlers, verified>>
  /\ UNCHANGED <<config, faults, testerVars>>

\* getBalance rejects
MainBalanceReject ==
  /\ mainpc = "balance"
  /\ Fault
  /\ UNCHANGED <<childWallets, createCall>>
  /\ Teardown(TRUE, walletManager)
  /\ UNCHANGED <<walletManager, handlers, verified>>
  /\ UNCHANGED <<config, testerVars, distVars>>

\* distributeFunds() returned: the first balance verification is issued
MainDistReturned ==
  /\ mainpc = "distribute"
  /\ distpc = "returned"
  /\ mainpc' = "verify"
  /\ verified' = 0
  /\ UNCHANGED <<walletManager, childWallets, createCall, error, handlers, proc, exitCode>>
  /\ UNCHANGED <<config, faults, testerVars, distVars, collVars>>

\* distributeFunds() threw
MainDistThrew ==
  /\ mainpc = "distribute"
  /\ distpc = "threw"
  /\ UNCHANGED <<childWallets, createCall>>
  /\ Teardown(TRUE, walletManager)
  /\ UNCHANGED <<walletManager, handlers, verified>>
  /\ UNCHANGED <<config, faults, testerVars, distVars>>

\* Math.min(3, wallets.length)
VerifyLimit ==
  IF Len(childWallets) < VerifyCount THEN Len(childWallets) ELSE VerifyCount

\* getWalletBalance resolves: the next one is issued; after the last one the
\* LoadTester is made, the signal handlers are registered and startLoadTest()
\* runs up to its first await
MainVerifyResolve ==
  /\ mainpc = "verify"
  /\ IF verified + 1 < VerifyLimit
       THEN /\ verified' = verified + 1
            /\ UNCHANGED <<mainpc, handlers, testerVars, config, faults>>
       ELSE /\ handlers' = TRUE
            /\ mainpc' = "loadtest"
            /\ nStarts' = nStarts + 1
            /\ startLoadTest(nStarts + 1)
            /\ UNCHANGED verified
  /\ UNCHANGED <<walletManager, childWallets, createCall, error, proc, exitCode>>
  /\ UNCHANGED <<distVars, collVars>>

\* getWalletBalance rejects
MainVerifyReject ==
  /\ mainpc = "verify"
  /\ Fault
  /\ UNCHANGED <<childWallets, createCall>>
  /\ Teardown(TRUE, walletManager)
  /\ UNCHANGED <<walletManager, handlers, verified>>
  /\ UNCHANGED <<config, testerVars, distVars>>

\* startLoadTest() returned
MainTestReturned ==
  /\ mainpc = "loadtest"
  /\ startpc[nStarts] = "returned"
  /\ UNCHANGED <<childWallets, createCall>>
  /\ Teardown(FALSE, walletManager)
  /\ UNCHANGED <<walletManager, handlers, verified>>
  /\ UNCHANGED <<config, faults, testerVars, distVars>>

\* startLoadTest() threw
MainTestThrew ==
  /\ mainpc = "loadtest"
  /\ startpc[nStarts] \in {"threw", "rejected"}
  /\ UNCHANGED <<childWallets, createCall>>
  /\ Teardown(TRUE, walletManager)
  /\ UNCHANGED <<walletManager, handlers, verified>>
  /\ UNCHANGED <<config, faults, testerVars, distVars>>

\* collectAllFunds() returned or threw (the error is logged): the end of main
MainCollectEnd ==
  /\ mainpc = "collect"
  /\ collpc \in {"returned", "threw"}
  /\ Exit(error)
  /\ UNCHANGED <<walletManager, childWallets, createCall, error, handlers, verified>>
  /\ UNCHANGED <<config, faults, testerVars, distVars, collVars>>

\* SIGINT or SIGTERM arrives: the registered handler calls loadTester.stop();
\* with no handler registered the signal ends the process
Signal ==
  /\ IF handlers
       THEN /\ stop
            /\ UNCHANGED <<nStarts, stopEarly, proc>>
       ELSE /\ proc' = "killed"
            /\ UNCHANGED <<config, faults, testerVars>>
  /\ UNCHANGED <<mainpc, walletManager, childWallets, createCall, error, handlers, verified, exitCode>>
  /\ UNCHANGED <<distVars, collVars>>

\* the configurations a run of main is given
MainConfigs ==
  {loadConfig([PRIVATE_KEY |-> "key", RPC_URL |-> "url", NUM_WALLETS |-> Given(n),
               TRANSACTIONS_PER_WALLET |-> Given(t), TRANSACTION_INTERVAL_MS |-> NotGiven]) :
     n \in {-1} \cup 1..MaxMainWallets, t \in {-1, 1}}

\* worker balances and gas prices the ledger reports during a run of main
MainBalances == {0, 20000007}
MainGasPrices == {0}

\* the process starts main()
InitMain ==
  /\ config \in MainConfigs
  /\ InitLoadTester
  /\ masterBalance \in Balances(config.numWallets, {0})
  /\ masterCount = 0
  /\ InitDistIdle
  /\ InitCollIdle
  /\ mainpc = "start"
  /\ walletManager = FALSE
  /\ childWallets = <<>>
  /\ createCall = NoCall
  /\ error = FALSE
  /\ handlers = FALSE
  /\ verified = 0
  /\ proc = "running"
  /\ exitCode = -1

\* the process has not ended
Alive == proc = "running"

NextMain ==
  \/ Alive /\ MainStart
  \/ Alive /\ MainNetworkResolve
  \/ Alive /\ MainNetworkReject
  \/ Alive /\ MainBalanceResolve
  \/ Alive /\ MainBalanceReject
  \/ Alive /\ DistBalanceResolve
  \/ Alive /\ DistBalanceReject
  \/ Alive /\ DistNonceResolve
  \/ Alive /\ DistNonceReject
  \/ \E g \in Wallets : Alive /\ TransferAccept(g)
  \/ \E g \in Wallets : Alive /\ TransferReject(g)
  \/ \E g \in Wallets : Alive /\ TransferConfirm(g)
  \/ \E g \in Wallets : Alive /\ TransferWaitReject(g)
  \/ Alive /\ MainDistReturned
  \/ Alive /\ MainDistThrew
  \/ Alive /\ MainVerifyResolve
  \/ Alive /\ MainVerifyReject
  \/ \E r \in Runs, w \in Wallets : Alive /\ InitNonceResolve(r, w)
  \/ \E r \in Runs, w \in Wallets : Alive /\ InitNonceReject(r, w)
  \/ \E r \in Runs, w \in Wallets : Alive /\ TimerFire(r, w)
  \/ \E r \in Runs, w \in Wallets : Alive /\ BroadcastAccept(r, w)
  \/ \E r \in Runs, w \in Wallets, kind \in ErrorKinds : Alive /\ BroadcastReject(r, w, kind)
  \/ \E r \in Runs, w \in Wallets, status \in {0, 1} : Alive /\ WaitResolve(r, w, status)
  \/ \E r \in Runs, w \in Wallets, kind \in ErrorKinds : Alive /\ WaitReject(r, w, kind)
  \/ \E r \in Runs, w \in Wallets : Alive /\ ResyncResolve(r, w)
  \/ \E r \in Runs, w \in Wallets : Alive /\ ResyncReject(r, w)
  \/ Alive /\ MainTestReturned
  \/ Alive /\ MainTestThrew
  \/ \E g \in Wallets, b \in MainBalances : Alive /\ CollBalanceResolve(g, b)
  \/ \E g \in Wallets : Alive /\ CollBalanceReject(g)
  \/ \E g \in Wallets, p \in MainGasPrices : Alive /\ CollFeeResolve(g, p)
  \/ \E g \in Wallets : Alive /\ CollFeeReject(g)
  \/ \E g \in Wallets : Alive /\ CollNonceResolve(g)
  \/ \E g \in Wallets : Alive /\ CollNonceReject(g)
  \/ \E g \in Wallets : Alive /\ CollSendAccept(g)
  \/ \E g \in Wallets : Alive /\ CollSendReject(g)
  \/ \E g \in Wallets, status \in {0, 1} : Alive /\ CollWaitResolve(g, status)
  \/ \E g \in Wallets : Alive /\ CollWaitReject(g)
  \/ Alive /\ CollFinalResolve
  \/ Alive /\ CollFinalReject
  \/ Alive /\ MainCollectEnd
  \/ Alive /\ Signal

SpecMain == InitMain /\ [][NextMain]_vars

\* the environments tried: each string variable set or not, each numeric
\* variable not given, below its bound, zero, or inside its bound
Envs ==
  [PRIVATE_KEY : {"", "key"},
   RPC_URL : {"", "url"},
   NUM_WALLETS : {NotGiven, Given(-1), Given(0), Given(1)},
   TRANSACTIONS_PER_WALLET : {NotGiven, Given(-1), Given(0), Given(1)},
   TRANSACTION_INTERVAL_MS : {NotGiven, Given(-1), Given(0), Given(1)}]

\* the process starts main() with the config object config.js made
InitConfig ==
  /\ config \in {loadConfig(e) : e \in Envs}
  /\ InitLoadTester
  /\ masterBalance = Amt(config.numWallets + 1, 0)
  /\ masterCount = 0
  /\ InitDistIdle
  /\ InitCollIdle
  /\ mainpc = "start"
  /\ walletManager = FALSE
  /\ childWallets = <<>>
  /\ createCall = NoCall
  /\ error = FALSE
  /\ handlers = FALSE
  /\ verified = 0
  /\ proc = "running"
  /\ exitCode = -1

\* main() up to its first use of the ledger's answers
NextConfig ==
  \/ Alive /\ MainStart
  \/ Alive /\ MainNetworkResolve
  \/ Alive /\ MainNetworkReject

SpecConfig == InitConfig /\ [][NextConfig]_vars

\* -------------------------------------------- WalletManager.createWallets
\* what ethers.Wallet.createRandom() can yield for k wallets: k addresses, no
\* two the same
KeySeqs(k) ==
  {ks \in [1..k -> 1..MaxAddresses] : \A i, j \in 1..k : i # j => ks[i] # ks[j]}

\* a client calls createWallets(config.numWallets) on a new WalletManager
CreateCall ==
  /\ createCall = NoCall
  /\ \E keys \in KeySeqs(IF config.numWallets > 0 THEN config.numWallets ELSE 0) :
       childWallets' = createWallets(childWallets, config.numWallets, keys)
  /\ createCall' = [n |-> config.numWallets, outcome |-> "returned"]
  /\ UNCHANGED <<mainpc, walletManager, error, handlers, verified, proc, exitCode>>
  /\ UNCHANGED <<config, faults, testerVars, distVars, collVars>>

\* a new WalletManager and a client about to ask for -1..MaxCreate wallets
InitCreate ==
  /\ config \in [numWallets : -1..MaxCreate, transactionsPerWallet : {1}]
  /\ InitLoadTester
  /\ masterBalance = Amt(0, 0)
  /\ masterCount = 0
  /\ InitDistIdle
  /\ InitCollIdle
  /\ mainpc = "none"
  /\ walletManager = TRUE
  /\ childWallets = <<>>
  /\ createCall = NoCall
  /\ error = FALSE
  /\ handlers = FALSE
  /\ verified = 0
  /\ proc = "running"
  /\ exitCode = -1

NextCreate == CreateCall

SpecCreate == InitCreate /\ [][NextCreate]_vars

\* ------------------------------------------------------------------ claims

\* C1: after updateNonce stored the ledger's pending count p for an address,
\* the allocations of that address return p, p + 1, p + 2, ... in this order
\* (so none is returned twice), and the cached counter is one past the last.
C1_AllocationsCountUpFromStored ==
  \A w \in Wallets :
    /\ nonces[w] = alloc[w].base + alloc[w].n
    /\ alloc[w].n > 0 => alloc[w].last = alloc[w].base + alloc[w].n - 1

\* C1 witness: a counter stored as p >= 1 by a resync, then allocated twice
C1_Witness ==
  \E w \in Wallets : alloc[w].base >= 1 /\ alloc[w].n >= 2

\* C2: when the dispatch run is finalized, succeeded + failed equals the
\* number of send attempts made (every attempt was counted exactly once).
C2_EveryAttemptCountedOnce ==
  \A r \in Runs :
    startpc[r] = "returned" =>
      stats.successfulTransactions + stats.failedTransactions = attempts

\* C3 as stated: after stop() was called before start(), no transaction is sent.
C3_StopFirstThenNoSend ==
  stopEarly => attempts = 0 /\ stats.totalTransactions = 0

\* C3 as amended: stop() before start() leaves Stats all-zero and the flag
\* false; the following start() is not affected by it: it sets the flag and
\* launches the loops, a loop ends short of its transactions only when stop()
\* is called again after start(), and start() returns only after every loop
\* has ended and the end time is stamped.
C3_StopFirstLeavesNoTrace ==
  /\ stopEarly /\ nStarts = 0 => stats = NewStats /\ ~isRunning
  /\ stopEarly /\ nStarts = 1 => startpc[1] # "none" /\ stats.startTime > 0
  /\ stopEarly /\ startpc[1] \in {"init", "loops"} /\ ~stopped => isRunning
  /\ stopEarly /\ startpc[1] = "returned" =>
       stats.endTime > 0 /\ AllDone(loops, 1)
  /\ \A w \in Wallets :
       stopEarly /\ loops[1][w].pc = "done"
                 /\ loops[1][w].i < config.transactionsPerWallet => stopped

\* C3 witness: stop() came first, and a loop of the following start() has a
\* transaction in flight
C3_Witness ==
  stopEarly /\ \E w \in Wallets : loops[1][w].pc = "wait"

\* C4: once worker accounts exist, main leaves distribution, verification
\* and dispatch only by going on to the next phase or, whether the phase
\* returned, threw or was stopped on request, by calling collectAllFunds; and
\* a process that main ends has had collectAllFunds called and awaited.  (A
\* process ended by a signal with no handler registered is not an outcome of
\* a phase.)
C4_CollectAttemptedAtTeardown ==
  /\ [](/\ proc = "exited" /\ Len(childWallets) > 0 => collpc \in {"returned", "threw"}
        /\ mainpc = "collect" => collpc # "idle"
        /\ mainpc = "done" => proc = "exited")
  /\ [][/\ mainpc = "distribute" /\ mainpc' # mainpc =>
             \/ mainpc' = "verify" /\ distpc = "returned"
             \/ mainpc' = "collect" /\ collpc = "idle" /\ collpc' = "running"
        /\ mainpc = "verify" /\ mainpc' # mainpc =>
             \/ mainpc' = "loadtest"
             \/ mainpc' = "collect" /\ collpc = "idle" /\ collpc' = "running"
        /\ mainpc = "loadtest" /\ mainpc' # mainpc =>
             mainpc' = "collect" /\ collpc = "idle" /\ collpc' = "running"
        /\ proc = "running" /\ proc' = "exited" /\ Len(childWallets) > 0 =>
             mainpc = "collect"]_vars

\* C4 witness: the process ended after a dispatch that was stopped on request
\* before every send was made, collectAllFunds having returned
C4_Witness ==
  /\ proc = "exited"
  /\ stopped
  /\ stats.totalTransactions > 0
  /\ stats.totalTransactions < config.numWallets * config.transactionsPerWallet
  /\ collpc = "returned"

\* C5: when a transfer of a distribution batch has failed, distributeFunds
\* has thrown, and no transfer of a later batch is ever issued.
C5_FailedBatchStopsDistribution ==
  \A g \in Wallets :
    transfers[g].pc = "threw" =>
      /\ distpc = "threw"
      /\ distErr = "Transfer"
      /\ \A h \in Wallets :
           (h - 1) \div batchSize > (g - 1) \div batchSize => transfers[h].pc = "none"

\* C5 witness: a transfer of the first batch failed while a later batch exists
C5_Witness ==
  \E g, h \in Wallets :
    /\ transfers[g].pc = "threw"
    /\ g <= batchSize /\ h > batchSize
    /\ distpc = "threw"

\* C6: with reserve = 0.01 ether x W: for B = 0 or B <= reserve distributeFunds
\* throws for want of funds before any sequence query or transfer, and for
\* B > reserve it does not throw on the balance checks.
C6_ReserveDecidesDistribution ==
  distpc \notin {"idle", "balance"} /\ distErr # "Rpc" =>
    LET short == AmtLeqZero(AmtSub(masterBalance, Amt(config.numWallets, 0))) IN
    /\ short =>
         /\ distErr \in {"NoFunds", "Insufficient"}
         /\ distpc = "threw"
         /\ \A g \in Wallets : transfers[g].pc = "none"
    /\ ~short => distErr \notin {"NoFunds", "Insufficient"}

\* C7: an error in one account's collection leaves every other account's task
\* as it was and does not make collectAllFunds throw; the erroring account is
\* recorded as failed, and once all tasks have ended the successful count is
\* the number of no-op and confirmed accounts, the rest being failed.
C7_CollectErrorsAreIsolated ==
  /\ [](/\ \A g \in Wallets : coll[g].how \in {"error", "failed"} => ~coll[g].success
        /\ collpc = "threw" => \A g \in Wallets : coll[g].pc = "done"
        /\ collpc \in {"final", "returned", "threw"} =>
             /\ \A g \in Wallets : coll[g].pc = "done"
             /\ collStats.successfulCollections =
                  Cardinality({g \in Wallets : coll[g].how \in {"noop", "confirmed"}})
             /\ config.numWallets - collStats.successfulCollections =
                  Cardinality({g \in Wallets : coll[g].how \in {"error", "failed"}}))
  /\ [][\A g \in Wallets :
          coll[g].how # "error" /\ coll'[g].how = "error" =>
            /\ \A h \in Wallets \ {g} : coll'[h] = coll[h]
            /\ collpc' # "threw"]_vars

\* C7 witness: collectAllFunds returned after one account's collection raised
\* an error and another account's transfer was confirmed
C7_Witness ==
  /\ collpc = "returned"
  /\ \E g, h \in Wallets : coll[g].how = "error" /\ coll[h].how = "confirmed"
  /\ collStats.successfulCollections = config.numWallets - 1

\* C8: a collection transfer is broadcast only for a balance above the
\* estimated cost and carries exactly balance - cost; an account whose balance
\* is 0 or at most the cost ends as a success of amount 0 without a broadcast;
\* totalCollected is the sum of the amounts sent by the confirmed accounts.
C8_CollectSendsBalanceMinusCost ==
  /\ \A g \in Wallets :
       /\ coll[g].sent =>
            /\ coll[g].balance > coll[g].cost
            /\ coll[g].amountToSend = coll[g].balance - coll[g].cost
       /\ coll[g].pc = "done" /\ coll[g].how # "error"
            /\ (coll[g].balance = 0 \/ coll[g].balance <= coll[g].cost) =>
            /\ coll[g].how = "noop"
            /\ coll[g].success /\ coll[g].amount = 0
            /\ ~coll[g].sent
       /\ coll[g].how = "confirmed" => coll[g].amount = coll[g].amountToSend
  /\ collpc \in {"final", "returned"} =>
       collStats.totalCollected =
         SumAmounts([g \in Wallets |->
                       [success |-> coll[g].how = "confirmed",
                        amount |-> coll[g].amountToSend]], config.numWallets)

\* C8 witness: collectAllFunds returned with one account's transfer confirmed
\* and another account, holding less than the cost, left alone
C8_Witness ==
  /\ collpc = "returned"
  /\ \E g, h \in Wallets :
       /\ coll[g].how = "confirmed" /\ coll[g].amountToSend > 0
       /\ coll[h].how = "noop" /\ coll[h].balance > 0
       /\ collStats.totalCollected = coll[g].amountToSend

\* C9: once stop() was called on the running dispatcher no loop allocates a
\* sequence number or issues a broadcast; stop() leaves the loops and the
\* sends in flight as they are, and a send in flight that reaches its terminal
\* result after stop() still changes Stats.
C9_NoSendAfterStop ==
  [][/\ stopped =>
          /\ attempts' = attempts
          /\ \A w \in Wallets : alloc'[w].n <= alloc[w].n
          /\ \A r \in Runs, w \in Wallets :
               loops'[r][w].pc = "broadcast" => loops[r][w] = loops'[r][w]
     /\ stopped' /\ ~stopped => loops' = loops /\ flying' = flying /\ stats' = stats
     /\ \A r \in Runs, w \in Wallets :
          stopped /\ flying[r][w] = 1 /\ flying'[r][w] = 0 =>
            /\ stats'.successfulTransactions + stats'.failedTransactions
                 > stats.successfulTransactions + stats.failedTransactions
    ]_vars

\* C9 witness: after stop(), one loop has ended short of its transactions
\* while a send of another loop is still in flight
C9_Witness ==
  /\ stopped
  /\ \E w1, w2 \in Wallets :
       /\ flying[1][w1] = 1
       /\ loops[1][w2].pc = "done"
       /\ loops[1][w2].i < config.transactionsPerWallet

\* C10: every account loop has at most one send in flight, and it has one
\* exactly while it awaits the broadcast or the confirmation of that send.
C10_OneSendInFlightPerLoop ==
  \A r \in Runs, w \in Wallets :
    /\ flying[r][w] \in {0, 1}
    /\ flying[r][w] = 1 <=> loops[r][w].pc \in {"broadcast", "wait"}

\* C10 witness: the second send of a loop in flight, the first one landed
C10_Witness ==
  \E w \in Wallets :
    loops[1][w].pc = "broadcast" /\ loops[1][w].i = 1 /\ flying[1][w] = 1

\* C11: a loop issues a send other than its first one only when its interval
\* sleep ends, whatever the terminal result of the send before it was.
C11_SleepBeforeEverySend ==
  [][\A r \in Runs, w \in Wallets :
       loops'[r][w].pc = "broadcast" /\ loops'[r][w].i > 0
         /\ loops'[r][w].i # loops[r][w].i
       => loops[r][w].pc = "sleep"]_vars

\* C12: a startLoadTest() called while the running flag is set throws and
\* leaves the statistics, the flag, the cached counters, the initialization
\* promises and the account loops as they were.
C12_StartWhileRunningChangesNothing ==
  [][\A r \in Runs :
       startpc[r] = "none" /\ startpc'[r] # "none" /\ isRunning =>
         /\ startpc'[r] = "rejected"
         /\ isRunning'
         /\ stats' = stats
         /\ nonces' = nonces
         /\ initp' = initp
         /\ loops' = loops]_vars

\* C12 witness: the second startLoadTest() was rejected while the loops of the
\* first had sent, and the statistics of the first are still there
C12_Witness ==
  /\ startpc[1] = "loops"
  /\ startpc[2] = "rejected"
  /\ isRunning
  /\ stats.startTime = 1
  /\ stats.totalTransactions > 0

\* C13: a process that main has ended has status 1 exactly when main caught
\* an error; it has a non-zero status after a configuration that fails
\* validation, a zero funding balance or a distribution that threw, and
\* status 0 whenever startLoadTest() returned, stopped on request or not,
\* whatever the sends and the fund collection came to.
C13_ExitStatus ==
  proc = "exited" =>
    /\ exitCode = (IF error THEN 1 ELSE 0)
    /\ ~validateConfig(config) => exitCode # 0
    /\ walletManager /\ AmtIsZero(masterBalance) => exitCode # 0
    /\ distpc = "threw" => exitCode # 0
    /\ nStarts > 0 /\ startpc[1] = "returned" => exitCode = 0
    /\ exitCode # 0 =>
         \/ ~validateConfig(config)
         \/ childWallets = <<>>
         \/ distpc = "threw"
         \/ mainpc = "done" /\ distpc = "returned" /\ nStarts = 0
         \/ nStarts > 0 /\ startpc[1] = "threw"

\* C13 witness: the process ended with status 0 after a dispatch with a failed
\* send and a collection in which an account's task raised an error
C13_Witness ==
  /\ proc = "exited"
  /\ exitCode = 0
  /\ stats.failedTransactions > 0
  /\ \E g \in Wallets : coll[g].how = "error"

\* C14: for every environment the config object can have come from: if
\* PRIVATE_KEY or RPC_URL is not set, or a numeric variable is given outside
\* its bound (NUM_WALLETS <= 0, TRANSACTIONS_PER_WALLET <= 0,
\* TRANSACTION_INTERVAL_MS < 0), main ends at validation with an error and
\* without a network call; otherwise validation passes and every numeric
\* value given is the value used.
C14_ValidationOfSuppliedOptions ==
  mainpc # "start" =>
    \A e \in Envs :
      config = loadConfig(e) =>
        IF \/ e.PRIVATE_KEY = "" \/ e.RPC_URL = ""
           \/ e.NUM_WALLETS.given /\ e.NUM_WALLETS.val <= 0
           \/ e.TRANSACTIONS_PER_WALLET.given /\ e.TRANSACTIONS_PER_WALLET.val <= 0
           \/ e.TRANSACTION_INTERVAL_MS.given /\ e.TRANSACTION_INTERVAL_MS.val < 0
        THEN mainpc = "done" /\ error /\ ~walletManager /\ faults = 0
        ELSE /\ mainpc \in {"network", "balance"}
             /\ e.NUM_WALLETS.given => config.numWallets = e.NUM_WALLETS.val
             /\ e.TRANSACTIONS_PER_WALLET.given =>
                  config.transactionsPerWallet = e.TRANSACTIONS_PER_WALLET.val
             /\ e.TRANSACTION_INTERVAL_MS.given =>
                  config.intervalMs = e.TRANSACTION_INTERVAL_MS.val

\* C15: createWallets(n) with n > 0 returns with a pool of exactly n
\* addresses, no two the same; with n <= 0 it fails and leaves no pool.
C15_CreateYieldsNOrFails ==
  createCall.outcome # "none" =>
    IF createCall.n > 0
      THEN /\ createCall.outcome = "returned"
           /\ Len(childWallets) = createCall.n
           /\ \A i, j \in 1..Len(childWallets) :
                i # j => childWallets[i] # childWallets[j]
      ELSE createCall.outcome = "threw"

\* C16: once the worker accounts exist, a signal does not end the process (it
\* is answered by stop()), and the process ends only after collectAllFunds
\* was called and awaited.
C16_SignalStillCollects ==
  Len(childWallets) > 0 =>
    /\ proc # "killed"
    /\ proc = "exited" => collpc \in {"returned", "threw"}

\* C17: a transfer of a later batch has been issued only if every transfer of
\* every earlier batch is confirmed, and at most batchSize distribution
\* transfers are in flight.
C17_BatchBarrier ==
  /\ \A g, h \in Wallets :
       (g - 1) \div batchSize < (h - 1) \div batchSize /\ transfers[h].pc # "none"
         => transfers[g].pc = "confirmed"
  /\ Cardinality({g \in Wallets : transfers[g].pc \in {"broadcast", "wait"}}) <= batchSize

\* C17 witness: a full second batch in flight, the first batch confirmed
C17_Witness ==
  /\ config.numWallets >= 2 * batchSize
  /\ \A g \in 1..batchSize : transfers[g].pc = "confirmed"
  /\ \A h \in (batchSize + 1)..(2 * batchSize) : transfers[h].pc \in {"broadcast", "wait"}

\* C18: the transfer to the worker at global index g (from 0) carries the
\* funding account's pending count, as read when distribution began, plus g:
\* the first transfer gets that count and every issued transfer the first
\* one's number plus its index.
C18_TransferNonces ==
  /\ [](\A g \in Wallets :
          transfers[g].pc # "none" =>
            /\ transfers[1].pc # "none"
            /\ transfers[g].nonce = transfers[1].nonce + (g - 1))
  /\ [][distpc = "nonce" /\ distpc' = "batch" => transfers'[1].nonce = masterCount]_vars

\* C18 witness: distribution returned, the pending count having been 1 and the
\* last worker, in a later batch, having got 1 + its index
C18_Witness ==
  /\ distpc = "returned"
  /\ config.numWallets > batchSize
  /\ transfers[1].nonce = 1
  /\ transfers[config.numWallets].pc = "confirmed"
  /\ transfers[config.numWallets].nonce = config.numWallets

\* C19 as stated: the cached counter of an address never decreases.
C19_CounterNeverDecreases ==
  [][\A w \in Wallets : nonces'[w] >= nonces[w]]_vars

\* C19 as amended: the cached counter of an address changes only by an
\* allocation, which adds one, or by the store of an initialization or resync,
\* which sets it to the ledger's pending count (an allocation may follow in
\* the same turn); so it decreases only to the ledger's pending count.
C19_CounterMovesByOneOrToLedger ==
  [][\A w \in Wallets :
       /\ nonces'[w] # nonces[w] =>
            \/ nonces'[w] = nonces[w] + 1
            \/ nonces'[w] \in {ledgerCount[w], ledgerCount[w] + 1}
       /\ nonces'[w] < nonces[w] =>
            /\ nonces'[w] \in {ledgerCount[w], ledgerCount[w] + 1}
            /\ alloc'[w].base = ledgerCount[w]]_vars

\* C19 witness: the second send of a loop carries the number of its first
\* one again, the resync after the rejected first send having lowered the counter
C19_Witness ==
  \E w \in Wallets :
    /\ loops[1][w].pc = "broadcast"
    /\ loops[1][w].i = 1
    /\ loops[1][w].nonce = 0
    /\ nonces[w] = 1
    /\ startpc[2] = "none"

\* C20: when the send of an account's loop ended in a sequence-conflict error,
\* the loop's next iteration starts only with that account's counter reset to
\* the ledger's pending count, so that its next send is allocated exactly that
\* count; the counters of the other accounts stay as they were.
C20_ResyncBeforeNextAllocation ==
  [][\A r \in Runs, w \in Wallets :
       (loops[r][w].pc = "resync" /\ loops'[r][w].pc # "resync") =>
          /\ loops'[r][w].pc = "broadcast" =>
                /\ loops'[r][w].nonce = ledgerCount[w]
                /\ nonces'[w] = ledgerCount[w] + 1
          /\ \A v \in Wallets \ {w} : nonces'[v] = nonces[v]]_vars

\* the start r was accepted: startLoadTest went past its running-flag check
Accepted(r) == startpc[r] \in {"init", "loops", "returned", "threw"}

\* the three counters of Stats
Counters(s) == <<s.totalTransactions, s.successfulTransactions, s.failedTransactions>>

\* C21: endTime is stamped for a run only after each of its account loops has
\* ended; from then on no send of that run is in flight, and as long as no
\* later start() is accepted the three counters stay as they are.
C21_FinalizedRunIsQuiet ==
  /\ [](\A r \in Runs : startpc[r] = "returned" =>
          /\ AllDone(loops, r)
          /\ \A w \in Wallets : flying[r][w] = 0)
  /\ [][\A r \in Runs :
          (/\ startpc[r] = "returned"
           /\ \A q \in Runs : q > r => ~Accepted(q)') =>
             Counters(stats') = Counters(stats)]_vars

\* C22: once stop() is called while the dispatcher is running, every account
\* loop ends in the end and the dispatcher finalizes: the running flag is
\* false and endTime is stamped by the finally block of startLoadTest.
C22_StopLeadsToFinalized ==
  (stopped /\ startpc[1] \in {"init", "loops"}) ~>
     (/\ startpc[1] = "returned"
      /\ AllDone(loops, 1)
      /\ ~isRunning
      /\ stats.endTime > stats.startTime)

\* the sends the loop of account w in run r has issued so far
Issued(r, w) ==
  IF loops[r][w].pc \in {"broadcast", "wait", "resync", "sleep"}
    THEN loops[r][w].i + 1
    ELSE loops[r][w].i

\* the sends the loops of the first n accounts in run r have issued so far
RECURSIVE IssuedByFirst(_, _)
IssuedByFirst(r, n) ==
  IF n = 0 THEN 0 ELSE Issued(r, n) + IssuedByFirst(r, n - 1)

\* C23: as long as stop() has not been called, the send attempts made are
\* those of the iterations every loop has gone through, a loop that has ended
\* has made exactly transactionsPerWallet of them whatever failed or threw,
\* and a step in which a ledger call of one account fails moves the loop of
\* no other account.
C23_FailuresStayInTheirLoop ==
  /\ [](~stopped /\ startpc[1] \in {"loops", "returned"} =>
          /\ \A w \in Wallets :
               loops[1][w].pc = "done" => loops[1][w].i = config.transactionsPerWallet
          /\ startpc[1] = "returned" =>
               attempts = config.numWallets * config.transactionsPerWallet
          /\ attempts = IssuedByFirst(1, config.numWallets))
  /\ [][faults' > faults =>
          \A w, v \in Wallets :
             (w # v /\ loops'[1][w] # loops[1][w]) => loops'[1][v] = loops[1][v]]_vars

\* C23 witness: a run of two accounts with two sends each, never stopped, has
\* ended with failures counted and all four attempts made
C23_Witness ==
  /\ ~stopped
  /\ startpc[1] = "returned"
  /\ config.numWallets = 2
  /\ config.transactionsPerWallet = 2
  /\ faults = MaxFaults
  /\ stats.failedTransactions > 0
  /\ attempts = 4

\* C24: when a run has been finalized, totalTransactions is the sum of
\* successfulTransactions and failedTransactions.
C24_TotalIsSucceededPlusFailed ==
  \A r \in Runs :
    startpc[r] = "returned" =>
      stats.totalTransactions = stats.successfulTransactions + stats.failedTransactions

\* C25: when an account's loop issues a broadcast with a sequence number that
\* was allocated right after another one, with no store from the ledger in
\* between, the ledger has accepted the broadcast of the number before it.
C25_NoSkippedSequenceNumber ==
  [][\A r \in Runs, w \in Wallets :
       (/\ loops'[r][w].pc = "broadcast"
        /\ loops'[r][w] # loops[r][w]
        /\ alloc'[w].n >= 2) =>
           ledgerCount[w] >= loops'[r][w].nonce]_vars

\* the loop of account w in run r was launched and has not ended
Active(r, w) == loops[r][w].pc \notin {"none", "done"}

\* C26: no account has the loops of two runs active together, and a start()
\* is accepted only when no loop of an earlier run is active.
C26_OneLoopPerAccount ==
  /\ [](\A w \in Wallets : \A r, q \in Runs : (Active(r, w) /\ Active(q, w)) => r = q)
  /\ [][\A r \in Runs :
          (~Accepted(r) /\ Accepted(r)') =>
             \A q \in Runs, w \in Wallets : ~Active(q, w)]_vars

\* C27: once distributeFunds has returned or thrown, no transfer from the
\* funding account awaits its broadcast or its confirmation.
C27_NoTransferOutlivesDistribute ==
  distpc \in {"returned", "threw"} =>
    \A g \in Wallets : transfers[g].pc \notin {"broadcast", "wait"}

\* C28: when an accepted startLoadTest() has returned or thrown, the running
\* flag is false and endTime is stamped (it is later than the startTime which
\* that call stamped), also when it threw out of initializeNonces.
C28_StartEndsNotRunning ==
  startpc[1] \in {"returned", "threw"} =>
    /\ ~isRunning
    /\ stats.endTime > stats.startTime

====
